---------------------------- MODULE Spec2Model ----------------------------
(***************************************************************************)
(* The seat agent of douzero/evaluation/llm_agent.py (class LLMAgent) and  *)
(* the game driver of play.py that calls it.                                *)
(*                                                                         *)
(* A Move is a Python list of card ranks, modelled as a sequence; the      *)
(* empty sequence is a pass.  Python indices are 0-based and are kept      *)
(* 0-based here: At(list, i) reads list[i].                                *)
(*                                                                         *)
(* Display tokens are strings.  The two joker tokens and the pass token of *)
(* the source are CJK strings; they are written here in ASCII as           *)
(* "XiaoWang", "DaWang" and "GuoPai".                                      *)
(***************************************************************************)
EXTENDS Integers, Sequences, FiniteSets, TLC

(***************************************************************************)
(* Bounds of the model.                                                    *)
(***************************************************************************)
\* number of games the driver plays with the pooled agent
MaxGames == 2
\* calls of act the driver makes on the agent
MaxTurns == 3
\* most entries of a legal-move list
MaxLegal == 2
\* longest action sequence handed to the History Reconstructor on its own
MaxRecLen == 3
\* most tokens of a designation handed to the Action Resolver on its own
MaxTokens == 3
\* most cards of a hand handed to the Deck Inventory or to the Card Codec on
\* its own
MaxHandLen == 3
\* most played moves on record in such a call
MaxPlayed == 2
\* most moves of an action sequence handed to the Situation Renderer on its
\* own
MaxSeqLen == 34
\* most calls of the Decision Oracle Client on its own
MaxCalls == 6

(***************************************************************************)
(* Constants of the program.                                               *)
(***************************************************************************)
\* call_llm_api_json: a reason longer than this is cut to it
ReasonLimit == 50
\* len("...")
EllipsisLen == 3
\* call_llm_api_json: recent decisions kept
RecentKept == 5
\* parse_card_response: a reason longer than this is cut for printing
PrintLimit == 100
\* _calculate_unknown_cards_str: copies of a rank from 3 to 2 in the deck
DeckCopies == 4

(***************************************************************************)
(* Generic helpers.                                                        *)
(***************************************************************************)
At(list, i) == list[i + 1]

Contains(list, x) == \E i \in 1..Len(list) : list[i] = x

\* collections.Counter(cards)[r]
Count(cards, r) == Cardinality({i \in 1..Len(cards) : cards[i] = r})

RECURSIVE SeqsUpTo(_, _)
SeqsUpTo(S, n) ==
    IF n = 0 THEN {<<>>}
    ELSE LET shorter == SeqsUpTo(S, n - 1)
         IN shorter \cup {Append(s, x) : s \in {t \in shorter : Len(t) = n - 1}, x \in S}

(***************************************************************************)
(* Card Codec.                                                             *)
(***************************************************************************)
CardRanks == (3..14) \cup {17, 20, 30}

\* mutant: both jokers are shown by the same token
EnvCard2RealCardJokersAlike ==
    [r \in CardRanks |->
        CASE r = 3 -> "3" [] r = 4 -> "4" [] r = 5 -> "5" [] r = 6 -> "6"
          [] r = 7 -> "7" [] r = 8 -> "8" [] r = 9 -> "9" [] r = 10 -> "10"
          [] r = 11 -> "J" [] r = 12 -> "Q" [] r = 13 -> "K" [] r = 14 -> "A"
          [] r = 17 -> "2" [] r = 20 -> "DaWang" [] r = 30 -> "DaWang"]

EnvCard2RealCard ==
    [r \in CardRanks |->
        CASE r = 3 -> "3" [] r = 4 -> "4" [] r = 5 -> "5" [] r = 6 -> "6"
          [] r = 7 -> "7" [] r = 8 -> "8" [] r = 9 -> "9" [] r = 10 -> "10"
          [] r = 11 -> "J" [] r = 12 -> "Q" [] r = 13 -> "K" [] r = 14 -> "A"
          [] r = 17 -> "2" [] r = 20 -> "XiaoWang" [] r = 30 -> "DaWang"]

RealCardTokens == {EnvCard2RealCard[r] : r \in CardRanks}

\* {v: k for k, v in EnvCard2RealCard.items()}: a later key overwrites an
\* earlier one with the same token, so the largest rank wins.
RealCard2EnvCard ==
    [t \in RealCardTokens |->
        CHOOSE r \in CardRanks :
            /\ EnvCard2RealCard[r] = t
            /\ \A q \in CardRanks : EnvCard2RealCard[q] = t => q <= r]

(***************************************************************************)
(* Seats and the Game State of one agent.                                  *)
(***************************************************************************)
\* the rotation order of _reconstruct_history
players == <<"landlord", "landlord_down", "landlord_up">>

Positions == {"landlord", "landlord_up", "landlord_down"}

\* last_move None is written <<>>: the code never stores an empty list in
\* that field.  last_player None is written "None".  The empty dict of
\* player_card_counts is written <<>>.
InitGameState(position) ==
    [position                 |-> position,
     hand_cards               |-> <<>>,
     last_move                |-> <<>>,
     last_player              |-> "None",
     played_cards             |-> <<>>,
     played_cards_with_player |-> <<>>,
     player_card_counts       |-> <<>>,
     recent_decisions         |-> <<>>]

(***************************************************************************)
(* History Reconstructor: _reconstruct_history.                            *)
(***************************************************************************)
NonEmptyMoves(actions) == SelectSeq(actions, LAMBDA a : a # <<>>)

\* mutant: a pass is left out of the attributed list
AppendNewActionsNoPass(gs, new_actions, current_len) ==
    [gs EXCEPT
        !.played_cards_with_player =
            @ \o [i \in 1..Len(NonEmptyMoves(new_actions)) |->
                    <<At(players, (current_len + i - 1) % 3), NonEmptyMoves(new_actions)[i]>>],
        !.played_cards = @ \o NonEmptyMoves(new_actions)]

\* the loop of lines 644-654 over new_actions, whose first entry has
\* global index current_len
AppendNewActions(gs, new_actions, current_len) ==
    [gs EXCEPT
        !.played_cards_with_player =
            @ \o [i \in 1..Len(new_actions) |->
                    <<At(players, (current_len + i - 1) % 3), new_actions[i]>>],
        !.played_cards = @ \o NonEmptyMoves(new_actions)]

\* mutant: the early return on an unchanged length is missing and the whole
\* sequence is taken as new
ReconstructHistoryNoGuard(gs, action_seq) ==
    IF action_seq = <<>> THEN gs
    ELSE LET current_len == Len(gs.played_cards_with_player)
             base == IF Len(action_seq) < current_len
                     THEN [gs EXCEPT !.played_cards_with_player = <<>>,
                                     !.played_cards = <<>>]
                     ELSE gs
         IN AppendNewActions(base, action_seq, 0)

\* mutant: the seat is derived from the index inside new_actions (i) and not
\* from the global index (current_len + i)
ReconstructHistoryLocalIdx(gs, action_seq) ==
    IF action_seq = <<>> THEN gs
    ELSE LET current_len == Len(gs.played_cards_with_player)
         IN IF Len(action_seq) = current_len THEN gs
            ELSE LET base == IF Len(action_seq) < current_len
                             THEN [gs EXCEPT !.played_cards_with_player = <<>>,
                                             !.played_cards = <<>>]
                             ELSE gs
                     start == Len(base.played_cards_with_player)
                 IN AppendNewActions(
                        base, SubSeq(action_seq, start + 1, Len(action_seq)), 0)

\* mutant: the reset clears the attributed list only
ReconstructHistoryKeepPlain(gs, action_seq) ==
    IF action_seq = <<>> THEN gs
    ELSE LET current_len == Len(gs.played_cards_with_player)
         IN IF Len(action_seq) = current_len THEN gs
            ELSE LET base == IF Len(action_seq) < current_len
                             THEN [gs EXCEPT !.played_cards_with_player = <<>>]
                             ELSE gs
                     start == Len(base.played_cards_with_player)
                 IN AppendNewActions(
                        base, SubSeq(action_seq, start + 1, Len(action_seq)), start)

ReconstructHistory(gs, action_seq) ==
    IF action_seq = <<>> THEN gs
    ELSE LET current_len == Len(gs.played_cards_with_player)
         IN IF Len(action_seq) = current_len THEN gs
            ELSE LET base == IF Len(action_seq) < current_len
                             THEN [gs EXCEPT !.played_cards_with_player = <<>>,
                                             !.played_cards = <<>>]
                             ELSE gs
                     start == Len(base.played_cards_with_player)
                 IN AppendNewActions(
                        base, SubSeq(action_seq, start + 1, Len(action_seq)), start)

(***************************************************************************)
(* State sync: _update_game_state.  An infoset is a record of the          *)
(* attributes the agent reads; has_counts and has_seq say whether the      *)
(* infoset has the attributes player_card_counts and card_play_action_seq, *)
(* and last_pid "None" that it has no (truthy) last_pid and no last_player.*)
(***************************************************************************)
\* mutant: the hand is taken from the infoset only while none is recorded
SyncFieldsStaleHand(gs, infoset) ==
    [gs EXCEPT
        !.hand_cards = IF @ = <<>> THEN infoset.player_hand_cards ELSE @,
        !.last_move = IF infoset.last_move # <<>> THEN infoset.last_move ELSE @,
        !.player_card_counts =
            IF infoset.has_counts THEN infoset.player_card_counts ELSE @,
        !.last_player = IF infoset.last_pid # "None" THEN infoset.last_pid ELSE @]

\* lines 590-605
SyncFields(gs, infoset) ==
    [gs EXCEPT
        !.hand_cards = infoset.player_hand_cards,
        !.last_move = IF infoset.last_move # <<>> THEN infoset.last_move ELSE @,
        !.player_card_counts =
            IF infoset.has_counts THEN infoset.player_card_counts ELSE @,
        !.last_player = IF infoset.last_pid # "None" THEN infoset.last_pid ELSE @]

\* mutant: without an action sequence the last move is appended at every sync
UpdateGameStateNoMembership(gs, infoset) ==
    LET synced == SyncFields(gs, infoset)
    IN IF infoset.has_seq
       THEN ReconstructHistory(synced, infoset.card_play_action_seq)
       ELSE IF infoset.last_move # <<>>
            THEN [synced EXCEPT !.played_cards = Append(@, infoset.last_move)]
            ELSE synced

UpdateGameState(gs, infoset) ==
    LET synced == SyncFields(gs, infoset)
    IN IF infoset.has_seq
       THEN ReconstructHistory(synced, infoset.card_play_action_seq)
       ELSE IF infoset.last_move # <<>> /\ ~Contains(synced.played_cards, infoset.last_move)
            THEN [synced EXCEPT !.played_cards = Append(@, infoset.last_move)]
            ELSE synced

(***************************************************************************)
(* Strings.  A string is a sequence of atoms: a display token of the codec,*)
(* " " (whitespace), "," (ASCII comma), "FullComma" (the full-width comma  *)
(* U+FF0C), the pass words, or "x" (any other text).  No concatenation of  *)
(* two or more atoms spells a display token.                               *)
(***************************************************************************)
\* str.lower() on one atom
LowerAtom(a) ==
    CASE a \in {"PASS", "Pass"} -> "pass"
      [] a = "J" -> "j" [] a = "Q" -> "q" [] a = "K" -> "k" [] a = "A" -> "a"
      [] a = "X" -> "x"
      [] OTHER -> a

Lower(s) == [i \in 1..Len(s) |-> LowerAtom(s[i])]

RECURSIVE LStrip(_)
LStrip(s) == IF s # <<>> /\ Head(s) = " " THEN LStrip(Tail(s)) ELSE s

RECURSIVE RStrip(_)
RStrip(s) ==
    IF s # <<>> /\ s[Len(s)] = " " THEN RStrip(SubSeq(s, 1, Len(s) - 1)) ELSE s

\* str.strip()
Strip(s) == RStrip(LStrip(s))

\* str.replace(old, ' ') for a one-atom old
ReplaceBySpace(s, old) == [i \in 1..Len(s) |-> IF s[i] = old THEN " " ELSE s[i]]

\* str.split(): the maximal runs of non-whitespace atoms
RECURSIVE SplitFrom(_, _, _)
SplitFrom(s, i, cur) ==
    IF i > Len(s) THEN (IF cur = <<>> THEN <<>> ELSE <<cur>>)
    ELSE IF s[i] = " "
         THEN (IF cur = <<>> THEN <<>> ELSE <<cur>>) \o SplitFrom(s, i + 1, <<>>)
         ELSE SplitFrom(s, i + 1, Append(cur, s[i]))

Split(s) == SplitFrom(s, 1, <<>>)

\* " ".join(strings)
RECURSIVE JoinSpace(_)
JoinSpace(strings) ==
    IF strings = <<>> THEN <<>>
    ELSE IF Len(strings) = 1 THEN strings[1]
    ELSE strings[1] \o <<" ">> \o JoinSpace(Tail(strings))

\* token in self.RealCard2EnvCard, for the token spelled by one run of atoms
IsCardToken(token) == Len(token) = 1 /\ token[1] \in RealCardTokens

(***************************************************************************)
(* JSON values as json.loads returns them, and None.                       *)
(*   t         None, null, number, bool, string, array, object             *)
(*   truthy    bool(value)                                                 *)
(*   has_reason, has_cards    'reason' in value, 'cards' in value: a key   *)
(*             of an object, an element of an array, a substring of a      *)
(*             string                                                      *)
(*   reason    value['reason'] of an object: rt its type, len its len(),   *)
(*             id its text, cut whether it is id[:50] + "..."              *)
(*   cards     value['cards'] of an object: ct "array" with the str() of   *)
(*             each element in items, or ct "scalar" with str(value) as    *)
(*             the one item                                                *)
(***************************************************************************)
NoReason == [rt |-> "absent", id |-> "", len |-> 0, cut |-> FALSE]

NoCards == [ct |-> "absent", items |-> <<>>]

None ==
    [t |-> "None", truthy |-> FALSE, has_reason |-> FALSE, has_cards |-> FALSE,
     reason |-> NoReason, cards |-> NoCards]

JsonScalar(t, truthy) ==
    [t |-> t, truthy |-> truthy, has_reason |-> FALSE, has_cards |-> FALSE,
     reason |-> NoReason, cards |-> NoCards]

\* a string or an array
JsonContainer(t, truthy, has_reason, has_cards) ==
    [t |-> t, truthy |-> truthy, has_reason |-> has_reason, has_cards |-> has_cards,
     reason |-> NoReason, cards |-> NoCards]

JsonObject(truthy, reason, cards) ==
    [t |-> "object", truthy |-> truthy,
     has_reason |-> reason.rt # "absent", has_cards |-> cards.ct # "absent",
     reason |-> reason, cards |-> cards]

StrReason(id, len) == [rt |-> "string", id |-> id, len |-> len, cut |-> FALSE]

CardsStr(s) == [ct |-> "scalar", items |-> <<s>>]

CardsList(items) == [ct |-> "array", items |-> items]

(***************************************************************************)
(* Action Resolver: parse_card_response.  The result is                    *)
(*   [kind |-> "index", idx |-> i]   return i                              *)
(*   [kind |-> E, idx |-> 0]         raise E                               *)
(***************************************************************************)
Return(i) == [kind |-> "index", idx |-> i]

Raise(e) == [kind |-> e, idx |-> 0]

\* lines 765-772
CardsStrOf(decision) ==
    Strip(IF decision.cards.ct = "array"
          THEN JoinSpace(decision.cards.items)
          ELSE decision.cards.items[1])

\* mutant: the pass word is compared without lower()
IsPassStrExact(cards_str) == cards_str = <<"GuoPai">> \/ cards_str = <<"pass">>

IsPassStr(cards_str) == cards_str = <<"GuoPai">> \/ Lower(cards_str) = <<"pass">>

\* mutant: a token that does not map discards the whole designation
CardsListOfStrict(cards_str) ==
    LET tokens == Split(Strip(ReplaceBySpace(cards_str, "FullComma")))
    IN IF \A i \in 1..Len(tokens) : IsCardToken(tokens[i])
       THEN [i \in 1..Len(tokens) |-> RealCard2EnvCard[tokens[i][1]]]
       ELSE <<>>

\* lines 788-804: the cards of the tokens that map, in order
CardsListOf(cards_str) ==
    LET tokens == Split(Strip(ReplaceBySpace(cards_str, "FullComma")))
        mapped == SelectSeq(tokens, IsCardToken)
    IN [i \in 1..Len(mapped) |-> RealCard2EnvCard[mapped[i][1]]]

\* mutant: the cards are compared as lists, in order
SameCounterOrdered(action, cards_list) == action = cards_list

\* Counter(action) == Counter(cards_list)
SameCounter(action, cards_list) ==
    \A r \in CardRanks : Count(action, r) = Count(cards_list, r)

\* lines 776-779
PassIndex(legal_actions) ==
    IF \E i \in 0..(Len(legal_actions) - 1) : At(legal_actions, i) = <<>>
    THEN CHOOSE i \in 0..(Len(legal_actions) - 1) :
            /\ At(legal_actions, i) = <<>>
            /\ \A j \in 0..(i - 1) : At(legal_actions, j) # <<>>
    ELSE 0

\* lines 823-827, run on a match: len(reason) raises TypeError for a reason
\* without a length, and reason[:100] + "..." for a long one that is no string
ReasonRaises(decision) ==
    /\ decision.has_reason
    /\ \/ decision.reason.rt \in {"number", "null"}
       \/ decision.reason.rt # "string" /\ decision.reason.len > PrintLimit

\* lines 819-832
MatchIndex(decision, cards_list, legal_actions) ==
    LET hits == {i \in 0..(Len(legal_actions) - 1) :
                    SameCounter(At(legal_actions, i), cards_list)}
    IN IF hits = {} THEN Raise("RuntimeError")
       ELSE IF ReasonRaises(decision) THEN Raise("TypeError")
       ELSE Return(CHOOSE i \in hits : \A j \in hits : i <= j)

\* mutant: a designation without a mappable token is reported as illegal
ParseTryRaiseOnEmpty(decision, legal_actions) ==
    IF decision.t # "object" THEN Raise("AttributeError")
    ELSE LET cards_str == CardsStrOf(decision)
         IN IF IsPassStr(cards_str) THEN Return(PassIndex(legal_actions))
            ELSE MatchIndex(decision, CardsListOf(cards_str), legal_actions)

\* the try block, lines 765-832
ParseTry(decision, legal_actions) ==
    IF decision.t # "object" THEN Raise("AttributeError")
    ELSE LET cards_str == CardsStrOf(decision)
         IN IF IsPassStr(cards_str) THEN Return(PassIndex(legal_actions))
            ELSE LET cards_list == CardsListOf(cards_str)
                 IN IF cards_list = <<>> THEN Return(0)
                    ELSE MatchIndex(decision, cards_list, legal_actions)

\* mutant: the except clause does not name AttributeError
ParseCardResponseNoAttr(decision, legal_actions) ==
    IF ~decision.truthy THEN Return(0)
    ELSE IF decision.t \in {"number", "bool"} THEN Raise("TypeError")
    ELSE IF ~decision.has_cards THEN Return(0)
    ELSE LET r == ParseTry(decision, legal_actions)
         IN IF r.kind \in {"ValueError", "TypeError"} THEN Return(0) ELSE r

ParseCardResponse(decision, legal_actions) ==
    IF ~decision.truthy THEN Return(0)
    ELSE IF decision.t \in {"number", "bool"} THEN Raise("TypeError")
    ELSE IF ~decision.has_cards THEN Return(0)
    ELSE LET r == ParseTry(decision, legal_actions)
         IN IF r.kind \in {"ValueError", "TypeError", "AttributeError"}
            THEN Return(0)
            ELSE r

(***************************************************************************)
(* Decision Oracle Client: call_llm_api_json.  A response of the endpoint  *)
(* is [kind, value]: kind "exception" (requests.post raised: a transport   *)
(* error or the timeout), "status" (a status other than 200), "notjson"    *)
(* (the content is no JSON text) or "json" with the decoded value.         *)
(***************************************************************************)
Response(kind, value) == [kind |-> kind, value |-> value]

\* lines 740-741
Truncated(reason) ==
    IF reason.len > ReasonLimit
    THEN [reason EXCEPT !.len = ReasonLimit + EllipsisLen, !.cut = TRUE]
    ELSE reason

\* lines 742-745
Remember(recent, reason) ==
    LET longer == Append(recent, reason)
    IN IF Len(longer) > RecentKept
       THEN SubSeq(longer, Len(longer) - RecentKept + 1, Len(longer))
       ELSE longer

\* mutant: the status is not looked at, and the body of an error answer, an
\* object without 'cards', is returned as the decision
CallLlmApiJsonStatusUnchecked(gs, response) ==
    LET v == response.value
        failed == [decision |-> None, gs |-> gs]
    IN IF response.kind = "status"
       THEN [decision |-> JsonObject(TRUE, NoReason, NoCards), gs |-> gs]
       ELSE IF response.kind # "json" THEN failed
       ELSE IF v.t \in {"null", "number", "bool"} THEN failed
       ELSE IF ~v.has_reason THEN [decision |-> v, gs |-> gs]
       ELSE IF v.t # "object" THEN failed
       ELSE IF v.reason.rt \in {"number", "null"} THEN failed
       ELSE IF v.reason.rt # "string" /\ v.reason.len > ReasonLimit THEN failed
       ELSE [decision |-> v,
             gs |-> [gs EXCEPT !.recent_decisions = Remember(@, Truncated(v.reason))]]

\* The decision returned and the Game State left behind.  Every exception
\* raised inside the body is caught at line 755 and gives None.
CallLlmApiJson(gs, response) ==
    LET v == response.value
        failed == [decision |-> None, gs |-> gs]
    IN IF response.kind # "json" THEN failed
       ELSE IF v.t \in {"null", "number", "bool"} THEN failed
       ELSE IF ~v.has_reason THEN [decision |-> v, gs |-> gs]
       ELSE IF v.t # "object" THEN failed
       ELSE IF v.reason.rt \in {"number", "null"} THEN failed
       ELSE IF v.reason.rt # "string" /\ v.reason.len > ReasonLimit THEN failed
       ELSE [decision |-> v,
             gs |-> [gs EXCEPT !.recent_decisions = Remember(@, Truncated(v.reason))]]

(***************************************************************************)
(* act, after the oracle has answered.                                     *)
(*   [kind |-> "return", action |-> m]   act returns m                     *)
(*   [kind |-> "raise",  action |-> <<>>] an exception leaves act          *)
(***************************************************************************)
Returns(action) == [kind |-> "return", action |-> action]

Raises == [kind |-> "raise", action |-> <<>>]

\* legal_actions[action_idx], an IndexError when the index is out of range
Pick(legal_actions, action_idx) ==
    IF action_idx < Len(legal_actions)
    THEN Returns(At(legal_actions, action_idx))
    ELSE Raises

\* mutant: on the illegal-move condition act plays the cards the oracle named
ChooseActionTrusting(decision, legal_actions) ==
    LET r == ParseCardResponse(decision, legal_actions)
    IN IF r.kind = "RuntimeError"
       THEN Returns(CardsListOf(CardsStrOf(decision)))
       ELSE IF r.kind = "index" THEN Pick(legal_actions, r.idx)
       ELSE Raises

\* mutant: on the illegal-move condition act takes the last legal move
ChooseActionLastOnIllegal(decision, legal_actions) ==
    LET r == ParseCardResponse(decision, legal_actions)
    IN IF r.kind = "RuntimeError" THEN Pick(legal_actions, Len(legal_actions) - 1)
       ELSE IF r.kind = "index" THEN Pick(legal_actions, r.idx)
       ELSE Raises

\* lines 869-877
ChooseAction(decision, legal_actions) ==
    LET r == ParseCardResponse(decision, legal_actions)
    IN IF r.kind = "RuntimeError" THEN Pick(legal_actions, 0)
       ELSE IF r.kind = "index" THEN Pick(legal_actions, r.idx)
       ELSE Raises

\* lines 864-865 and 880-881
RecordPlayed(gs, action) ==
    IF action # <<>> /\ ~Contains(gs.played_cards, action)
    THEN [gs EXCEPT !.played_cards = Append(@, action)]
    ELSE gs

\* mutant: the forced branch is taken for an empty list only
IsForcedOffByOne(legal_actions) == Len(legal_actions) = 0

\* line 843
IsForced(legal_actions) == Len(legal_actions) = 1

(***************************************************************************)
(* The game engine, as far as the agent sees it.  The game is scaled down: *)
(* the agent is dealt a 3 and a 4 and plays single cards; the hands of the *)
(* other seats are not tracked, they pass or play a single 3 as long as    *)
(* the deck has one left.                                                  *)
(***************************************************************************)
GameRanks == {3, 4}

MoveUniverse == {<<>>, <<3>>, <<4>>}

OtherMoves == {<<>>, <<3>>}

DealtHands == {<<3, 4>>}

ActingSeat(action_seq) == At(players, Len(action_seq) % 3)

\* the last opposing move: the last entry, or the one before it when the
\* last seat passed; empty when both passed or nothing was played
LastMoveOf(action_seq) ==
    IF action_seq = <<>> THEN <<>>
    ELSE IF action_seq[Len(action_seq)] # <<>> THEN action_seq[Len(action_seq)]
    ELSE IF Len(action_seq) >= 2 THEN action_seq[Len(action_seq) - 1]
    ELSE <<>>

\* the seat of the last move that was no pass
LastPidOf(action_seq) ==
    LET played == {i \in 1..Len(action_seq) : action_seq[i] # <<>>}
    IN IF played = {} THEN "None"
       ELSE At(players, ((CHOOSE i \in played : \A j \in played : j <= i) - 1) % 3)

IsSubBag(move, hand) == \A r \in GameRanks : Count(move, r) <= Count(hand, r)

RECURSIVE RemoveCards(_, _)
RemoveCards(hand, move) ==
    IF move = <<>> THEN hand
    ELSE LET i == CHOOSE k \in 1..Len(hand) :
                    /\ hand[k] = Head(move)
                    /\ \A j \in 1..(k - 1) : hand[j] # Head(move)
         IN RemoveCards(SubSeq(hand, 1, i - 1) \o SubSeq(hand, i + 1, Len(hand)),
                        Tail(move))

\* copies of rank r played so far
RECURSIVE PlayedCount(_, _)
PlayedCount(action_seq, r) ==
    IF action_seq = <<>> THEN 0
    ELSE Count(Head(action_seq), r) + PlayedCount(Tail(action_seq), r)

\* a seat that leads cannot pass
CanPlay(action_seq, move) == LastMoveOf(action_seq) = <<>> => move # <<>>

\* another seat can play a move whose cards are neither played nor in the
\* agent's hand
CanOtherPlay(action_seq, hand, move) ==
    /\ CanPlay(action_seq, move)
    /\ \A r \in GameRanks :
          Count(move, r) + PlayedCount(action_seq, r) + Count(hand, r) <= DeckCopies

\* the legal-move lists the engine may hand over: distinct moves from the hand
LegalLists(hand, action_seq) ==
    {l \in SeqsUpTo({m \in MoveUniverse : IsSubBag(m, hand) /\ CanPlay(action_seq, m)},
                    MaxLegal) :
        /\ Len(l) >= 1
        /\ \A i, j \in 1..Len(l) : i # j => l[i] # l[j]}

(***************************************************************************)
(* The answers of the oracle the game is played with.                      *)
(***************************************************************************)
Designations ==
    {CardsStr(<<"3">>), CardsStr(<<"4", " ", "4">>), CardsStr(<<"x">>),
     CardsStr(<<"x", " ", "4">>), CardsStr(<<"GuoPai">>), CardsList(<<<<"4">>>>)}

NumReason == [rt |-> "number", id |-> "", len |-> 0, cut |-> FALSE]

JsonValues ==
    {JsonScalar("null", FALSE), JsonScalar("number", TRUE), JsonScalar("bool", TRUE),
     JsonContainer("string", TRUE, FALSE, TRUE), JsonContainer("string", TRUE, TRUE, TRUE),
     JsonContainer("array", TRUE, FALSE, FALSE), JsonContainer("array", TRUE, TRUE, FALSE),
     JsonObject(FALSE, NoReason, NoCards),
     JsonObject(TRUE, StrReason("r", 60), NoCards),
     JsonObject(TRUE, NoReason, CardsStr(<<"3">>)),
     JsonObject(TRUE, NumReason, CardsStr(<<"3">>))}
    \cup {JsonObject(TRUE, StrReason("r", 60), cs) : cs \in Designations}

OracleResponses ==
    {Response(k, JsonScalar("null", FALSE)) : k \in {"exception", "status", "notjson"}}
    \cup {Response("json", v) : v \in JsonValues}

(***************************************************************************)
(* Deck Inventory: _calculate_unknown_cards_str.                           *)
(***************************************************************************)
Copies(r, k) == [i \in 1..k |-> r]

\* lines 555-562
RECURSIVE FullDeckFrom(_)
FullDeckFrom(i) ==
    IF i < 15 THEN Copies(i, DeckCopies) \o FullDeckFrom(i + 1)
    ELSE Copies(17, DeckCopies) \o <<20, 30>>

full_deck == FullDeckFrom(3)

\* collections.Counter(cards), over the ranks of the codec
CounterOf(cards) == [r \in CardRanks |-> Count(cards, r)]

\* mutant: one copy is taken off for a rank of other, however many it holds
CounterMinusOnce(counter, other) ==
    [r \in CardRanks |-> IF other[r] > 0 /\ counter[r] > 0 THEN counter[r] - 1 ELSE counter[r]]

\* counter -= other: a count that would not stay positive is dropped
CounterMinus(counter, other) ==
    [r \in CardRanks |-> IF counter[r] > other[r] THEN counter[r] - other[r] ELSE 0]

\* lines 570-573
RECURSIVE FlatPlayed(_)
FlatPlayed(played_cards) ==
    IF played_cards = <<>> THEN <<>>
    ELSE Head(played_cards) \o FlatPlayed(Tail(played_cards))

\* the cards of a counter in ascending order: lines 578-584, and the loop
\* over sorted(card_counter.keys()) of format_hand_cards_compact
RECURSIVE ExpandSorted(_, _)
ExpandSorted(counter, ranks) ==
    IF ranks = {} THEN <<>>
    ELSE LET r == CHOOSE x \in ranks : \A y \in ranks : x <= y
         IN Copies(r, counter[r]) \o ExpandSorted(counter, ranks \ {r})

\* format_hand_cards_compact: the names of the cards, ascending, not separated
FormatHandCardsCompact(cards) ==
    LET sorted == ExpandSorted(CounterOf(cards), CardRanks)
    IN [i \in 1..Len(sorted) |-> EnvCard2RealCard[sorted[i]]]

ReturnsStr(str) == [kind |-> "return", str |-> str]

\* _calculate_unknown_cards_str has no raise and calls nothing that raises
\* on cards of the codec
CalculateUnknownCardsStr(gs) ==
    LET after_hand == CounterMinus(CounterOf(full_deck), CounterOf(gs.hand_cards))
        deck_counter == CounterMinus(after_hand, CounterOf(FlatPlayed(gs.played_cards)))
    IN ReturnsStr(FormatHandCardsCompact(ExpandSorted(deck_counter, CardRanks)))

(***************************************************************************)
(* Situation Renderer: create_comprehensive_prompt, after its sync, as far *)
(* as the prompt depends on the Game State.  The CJK words of the source   *)
(* for "none" and for a pass inside a round are written "Wu" and "Guo".    *)
(***************************************************************************)
TotalCards == 54

RoundSize == 3

RoundsShown == 10

\* format_cards on a flat list of cards of the codec: lines 74-75 and 89
FormatCards(cards) ==
    IF cards = <<>> THEN <<"GuoPai">>
    ELSE JoinSpace([i \in 1..Len(cards) |-> <<EnvCard2RealCard[cards[i]]>>])

\* lines 330-332: one play of a round
PlayEntry(entry) ==
    [player   |-> entry[1],
     play_str |-> IF entry[2] # <<>> THEN FormatCards(entry[2]) ELSE <<"Guo">>]

\* lines 326-343: RoundSize plays to a round, numbered from 1; what is left
\* over forms a last round
Rounds(all_plays) ==
    LET full == Len(all_plays) \div RoundSize
        rest == Len(all_plays) % RoundSize
        n    == IF rest = 0 THEN full ELSE full + 1
    IN [k \in 1..n |->
           [round_num |-> k,
            plays     |-> [j \in 1..(IF k <= full THEN RoundSize ELSE rest) |->
                              PlayEntry(all_plays[(k - 1) * RoundSize + j])]]]

\* mutant: the first rounds are kept
ShownRoundsOldest(rounds) ==
    IF Len(rounds) > RoundsShown THEN SubSeq(rounds, 1, RoundsShown) ELSE rounds

\* lines 346-348: rounds[-10:]
ShownRounds(rounds) ==
    IF Len(rounds) > RoundsShown
    THEN SubSeq(rounds, Len(rounds) - RoundsShown + 1, Len(rounds))
    ELSE rounds

\* lines 270-356, the rounds and the line above them
HistoryOf(gs) ==
    IF gs.played_cards_with_player = <<>> THEN [label |-> "none", rounds |-> <<>>]
    ELSE LET rounds == Rounds(gs.played_cards_with_player)
         IN [label  |-> IF Len(rounds) > RoundsShown THEN "recent" ELSE "all",
             rounds |-> ShownRounds(rounds)]

\* mutant: each of the two other seats is given the half, rounded down
CardCountsInfoHalves(gs) ==
    IF gs.player_card_counts # <<>> THEN gs.player_card_counts
    ELSE LET my_cards_count == Len(gs.hand_cards)
             opponents_total == TotalCards - Len(FlatPlayed(gs.played_cards)) - my_cards_count
             opponent1_count == opponents_total \div 2
         IN [p \in Positions |-> IF p = gs.position THEN my_cards_count ELSE opponent1_count]

\* lines 417-455: the counts shown for the three seats
CardCountsInfo(gs) ==
    IF gs.player_card_counts # <<>> THEN gs.player_card_counts
    ELSE LET played_cards_count == Len(FlatPlayed(gs.played_cards))
             my_cards_count == Len(gs.hand_cards)
             opponents_total == TotalCards - played_cards_count - my_cards_count
             opponent1_count == opponents_total \div 2
             opponent2_count == opponents_total - opponent1_count
         IN CASE gs.position = "landlord" ->
                   [p \in Positions |->
                       CASE p = "landlord" -> my_cards_count
                         [] p = "landlord_up" -> opponent1_count
                         [] p = "landlord_down" -> opponent2_count]
              [] gs.position = "landlord_up" ->
                   [p \in Positions |->
                       CASE p = "landlord" -> opponent1_count
                         [] p = "landlord_up" -> my_cards_count
                         [] p = "landlord_down" -> opponent2_count]
              [] gs.position = "landlord_down" ->
                   [p \in Positions |->
                       CASE p = "landlord" -> opponent1_count
                         [] p = "landlord_up" -> opponent2_count
                         [] p = "landlord_down" -> my_cards_count]

\* the Game State the prompt is built from is the one left by the sync of
\* line 260
CreateComprehensivePrompt(gs) ==
    [last_move_str     |-> IF gs.last_move # <<>> THEN FormatCards(gs.last_move) ELSE <<"Wu">>,
     history           |-> HistoryOf(gs),
     unknown_cards_str |-> CalculateUnknownCardsStr(gs).str,
     card_counts_info  |-> CardCountsInfo(gs)]

\* the value of a variable whose operation has not run
NotCalled == [kind |-> "not called"]

\* self.round_count after _debug_messages_to_file or
\* _debug_forced_move_to_file: both return early without a log file
\* (debug_mode is True, line 40) and count the round otherwise
Logged(path, count) == IF path = "None" THEN count ELSE count + 1

(***************************************************************************)
(* State.                                                                  *)
(***************************************************************************)
VARIABLES
    position,          \* the seat of the agent
    game,              \* the number of the game being played, from 1
    turns,             \* calls of act made so far
    action_seq,        \* the engine's card_play_action_seq
    player_hand_cards, \* the engine's hand of the agent
    legal_actions,     \* the legal-move list of the turn
    pc,                \* where act stands
    decision,          \* what call_llm_api_json returned
    result,            \* the move act returned
    oracle_calls,      \* requests sent to the oracle in this turn
    parse_calls,       \* calls of parse_card_response in this turn
    game_state,        \* self.game_state
    rec_pre,           \* the Game State before the last lone reconstruction
    action_idx,        \* what a lone call of parse_card_response gave
    unknown_cards,     \* what a lone call of _calculate_unknown_cards_str gave
    response,          \* what the endpoint answered to the turn's last request
    prompt,            \* what a lone call of create_comprehensive_prompt put into the prompt
    round_count,       \* self.round_count
    log_file_path,     \* self.log_file_path: "None" or "file"
    answers,           \* the answers a lone series of requests got, oldest first
    codec              \* a lone conversion of cards to text and back

vars ==
    <<position, game, turns, action_seq, player_hand_cards, legal_actions, pc, decision,
      result, oracle_calls, parse_calls, game_state, rec_pre, action_idx, unknown_cards,
      response, prompt, round_count, log_file_path, answers, codec>>

\* env._game_infoset as the agent reads it
Infoset ==
    [player_hand_cards    |-> player_hand_cards,
     last_move            |-> LastMoveOf(action_seq),
     last_pid             |-> LastPidOf(action_seq),
     has_counts           |-> FALSE,
     player_card_counts   |-> <<>>,
     has_seq              |-> TRUE,
     card_play_action_seq |-> action_seq,
     legal_actions        |-> legal_actions]

Init ==
    /\ position \in Positions
    /\ game = 1
    /\ turns = 0
    /\ action_seq = <<>>
    /\ player_hand_cards \in DealtHands
    /\ legal_actions = <<>>
    /\ pc = "await"
    /\ decision = None
    /\ result = <<>>
    /\ oracle_calls = 0
    /\ parse_calls = 0
    /\ game_state = InitGameState(position)
    /\ rec_pre = InitGameState(position)
    /\ action_idx = NotCalled
    /\ unknown_cards = NotCalled
    /\ response = NotCalled
    /\ prompt = NotCalled
    /\ round_count = 0
    /\ log_file_path = "None"
    /\ answers = <<>>
    /\ codec = NotCalled

(***************************************************************************)
(* act, step by step.                                                      *)
(***************************************************************************)
\* play.py line 106 calls act with the infoset of the turn; act line 841
ActSync ==
    /\ pc = "await"
    /\ ActingSeat(action_seq) = position
    /\ player_hand_cards # <<>>
    /\ turns < MaxTurns
    /\ turns' = turns + 1
    /\ \E l \in LegalLists(player_hand_cards, action_seq) :
          /\ legal_actions' = l
          /\ game_state' = UpdateGameState(game_state, [Infoset EXCEPT !.legal_actions = l])
    /\ pc' = "synced"
    /\ oracle_calls' = 0
    /\ parse_calls' = 0
    /\ decision' = None
    /\ result' = <<>>
    /\ response' = NotCalled
    /\ UNCHANGED <<position, game, action_seq, player_hand_cards, rec_pre,
                   action_idx, unknown_cards, prompt, round_count, log_file_path, answers,
                   codec>>

\* lines 843-851
ActForced ==
    /\ pc = "synced"
    /\ IsForced(legal_actions)
    /\ result' = At(legal_actions, 0)
    /\ round_count' = Logged(log_file_path, round_count)
    /\ pc' = "returned"
    /\ UNCHANGED <<position, game, turns, action_seq, player_hand_cards, legal_actions,
                   decision, oracle_calls, parse_calls, game_state, rec_pre,
                   action_idx, unknown_cards, response,
                   prompt, log_file_path, answers, codec>>

\* line 855: create_comprehensive_prompt syncs again (line 260); the prompt
\* it returns is CreateComprehensivePrompt of the Game State it leaves,
\* which stays as it is until the oracle is asked
ActPrompt ==
    /\ pc = "synced"
    /\ ~IsForced(legal_actions)
    /\ game_state' = UpdateGameState(game_state, Infoset)
    /\ pc' = "prompted"
    /\ UNCHANGED <<position, game, turns, action_seq, player_hand_cards, legal_actions,
                   decision, result, oracle_calls, parse_calls, rec_pre,
                   action_idx, unknown_cards, response,
                   prompt, round_count, log_file_path, answers, codec>>

\* mutant: a request that gave no decision is sent once more
ActOracleRetrying ==
    /\ pc = "prompted" \/ (pc = "decided" /\ decision = None /\ oracle_calls < 2)
    /\ \E answer \in OracleResponses :
          LET got == CallLlmApiJson(game_state, answer)
          IN /\ response' = answer
             /\ decision' = got.decision
             /\ game_state' = got.gs
    /\ oracle_calls' = oracle_calls + 1
    /\ round_count' = Logged(log_file_path, round_count)
    /\ pc' = "decided"
    /\ UNCHANGED <<position, game, turns, action_seq, player_hand_cards, legal_actions,
                   result, parse_calls, rec_pre,
                   action_idx, unknown_cards, prompt, log_file_path, answers, codec>>

\* line 858
ActOracle ==
    /\ pc = "prompted"
    /\ \E answer \in OracleResponses :
          LET got == CallLlmApiJson(game_state, answer)
          IN /\ response' = answer
             /\ decision' = got.decision
             /\ game_state' = got.gs
    /\ oracle_calls' = oracle_calls + 1
    /\ round_count' = Logged(log_file_path, round_count)
    /\ pc' = "decided"
    /\ UNCHANGED <<position, game, turns, action_seq, player_hand_cards, legal_actions,
                   result, parse_calls, rec_pre,
                   action_idx, unknown_cards, prompt, log_file_path, answers, codec>>

\* lines 860-866
ActFallback ==
    /\ pc = "decided"
    /\ decision = None
    /\ result' = At(legal_actions, 0)
    /\ game_state' = RecordPlayed(game_state, At(legal_actions, 0))
    /\ pc' = "returned"
    /\ UNCHANGED <<position, game, turns, action_seq, player_hand_cards, legal_actions,
                   decision, oracle_calls, parse_calls, rec_pre,
                   action_idx, unknown_cards, response,
                   prompt, round_count, log_file_path, answers, codec>>

\* lines 868-883
ActResolve ==
    /\ pc = "decided"
    /\ decision # None
    /\ parse_calls' = parse_calls + 1
    /\ result' = ChooseAction(decision, legal_actions).action
    /\ game_state' =
          IF ChooseAction(decision, legal_actions).kind = "return"
          THEN RecordPlayed(game_state, ChooseAction(decision, legal_actions).action)
          ELSE game_state
    /\ pc' = IF ChooseAction(decision, legal_actions).kind = "return"
             THEN "returned"
             ELSE "raised"
    /\ UNCHANGED <<position, game, turns, action_seq, player_hand_cards, legal_actions,
                   decision, oracle_calls, rec_pre,
                   action_idx, unknown_cards, response,
                   prompt, round_count, log_file_path, answers, codec>>

Act == ActSync \/ ActForced \/ ActPrompt \/ ActOracle \/ ActFallback \/ ActResolve

(***************************************************************************)
(* The driver and the other seats.                                         *)
(***************************************************************************)
\* the game is over once a seat has played its last card; the hands of the
\* other seats are not tracked, so any move of theirs that is no pass may
\* be their last
MayBeOver ==
    /\ action_seq # <<>>
    /\ action_seq[Len(action_seq)] # <<>>
    /\ ActingSeat(SubSeq(action_seq, 1, Len(action_seq) - 1)) = position
          => player_hand_cards = <<>>

\* play.py lines 109-111: the engine plays the move act returned
EngineStep ==
    /\ pc = "returned"
    /\ action_seq' = Append(action_seq, result)
    /\ player_hand_cards' = RemoveCards(player_hand_cards, result)
    /\ pc' = "await"
    /\ UNCHANGED <<position, game, turns, legal_actions, decision, result, oracle_calls,
                   parse_calls, game_state, rec_pre,
                   action_idx, unknown_cards, response,
                   prompt, round_count, log_file_path, answers, codec>>

\* play.py lines 106-111 for a seat held by another agent
OtherSeatPlays ==
    /\ pc = "await"
    /\ ActingSeat(action_seq) # position
    /\ player_hand_cards # <<>>
    /\ turns < MaxTurns
    /\ \E m \in OtherMoves :
          /\ CanOtherPlay(action_seq, player_hand_cards, m)
          /\ action_seq' = Append(action_seq, m)
    /\ UNCHANGED <<position, game, turns, player_hand_cards, legal_actions, pc, decision,
                   result, oracle_calls, parse_calls, game_state, rec_pre,
                   action_idx, unknown_cards, response,
                   prompt, round_count, log_file_path, answers, codec>>

\* play.py lines 248-293: the next game takes the agent from llm_agents_pool
\* (lines 272-277); neither start_new_game nor init_game_state is called on
\* it.  The one call made on a pooled agent, line 281, is made for the
\* first game only and names reset_conversation_history, a method LLMAgent
\* does not define.
NewGame ==
    /\ pc = "await"
    /\ MayBeOver
    /\ game < MaxGames
    /\ game' = game + 1
    /\ action_seq' = <<>>
    /\ player_hand_cards' \in DealtHands
    /\ UNCHANGED <<position, turns, legal_actions, pc, decision, result, oracle_calls,
                   parse_calls, game_state, rec_pre,
                   action_idx, unknown_cards, response,
                   prompt, round_count, log_file_path, answers, codec>>

Next == Act \/ EngineStep \/ OtherSeatPlays \/ NewGame

Spec == Init /\ [][Next]_vars

\* lines 868-883 as a step: act leaves "decided" with some move, having
\* called parse_card_response once.  Every step of ActResolve is such a
\* step, every such step allowed by Next is a step of ActResolve, and
\* both are enabled in the same states.
ActLeavesDecided ==
    /\ pc = "decided"
    /\ decision # None
    /\ parse_calls' = parse_calls + 1
    /\ result' \in MoveUniverse
    /\ game_state' \in {game_state, RecordPlayed(game_state, result')}
    /\ pc' \in {"returned", "raised"}
    /\ UNCHANGED <<position, game, turns, action_seq, player_hand_cards, legal_actions,
                   decision, oracle_calls, rec_pre,
                   action_idx, unknown_cards, response,
                   prompt, round_count, log_file_path, answers, codec>>

\* act runs to its end: the agent is single-threaded and the one blocking
\* call, the request to the oracle, has a timeout (line 720)
LiveSpec ==
    Spec /\ WF_vars(ActForced \/ ActPrompt \/ ActOracle \/ ActFallback \/ ActLeavesDecided)

(***************************************************************************)
(* The History Reconstructor on its own: _reconstruct_history is called    *)
(* with any action sequence of up to MaxRecLen moves, again and again.     *)
(***************************************************************************)
RecSeqs == SeqsUpTo(MoveUniverse, MaxRecLen)

RecInit ==
    /\ position \in Positions
    /\ game = 1
    /\ turns = 0
    /\ action_seq = <<>>
    /\ player_hand_cards = <<>>
    /\ legal_actions = <<>>
    /\ pc = "reconstruct"
    /\ decision = None
    /\ result = <<>>
    /\ oracle_calls = 0
    /\ parse_calls = 0
    /\ game_state = InitGameState(position)
    /\ rec_pre = InitGameState(position)
    /\ action_idx = NotCalled
    /\ unknown_cards = NotCalled
    /\ response = NotCalled
    /\ prompt = NotCalled
    /\ round_count = 0
    /\ log_file_path = "None"
    /\ answers = <<>>
    /\ codec = NotCalled

Reconstruct ==
    /\ pc = "reconstruct"
    /\ \E s \in RecSeqs :
          /\ action_seq' = s
          /\ game_state' = ReconstructHistory(game_state, s)
    /\ rec_pre' = game_state
    /\ UNCHANGED <<position, game, turns, player_hand_cards, legal_actions, pc,
                   decision, result, oracle_calls, parse_calls, action_idx,
                   unknown_cards, response,
                   prompt, round_count, log_file_path, answers, codec>>

RecNext == Reconstruct

SpecRec == RecInit /\ [][RecNext]_vars

(***************************************************************************)
(* The Action Resolver on its own: parse_card_response is called once with *)
(* a decision and a legal-move list.  A designation is up to MaxTokens     *)
(* tokens, separated by spaces (with or without blanks around it), ASCII   *)
(* commas or full-width commas, or the list of the tokens; or a pass word. *)
(***************************************************************************)
ParseTokens == {"3", "4", "x"}

ParseSeps == {" ", ",", "FullComma"}

PassWords == {"GuoPai", "pass", "PASS", "Pass"}

\* the legal moves of these calls, <<3, 4>> in both orders
ParseMoves == {<<>>, <<3>>, <<3, 4>>, <<4, 3>>, <<3, 3, 3>>}

\* sep.join(strings)
RECURSIVE Join(_, _)
Join(strings, sep) ==
    IF strings = <<>> THEN <<>>
    ELSE IF Len(strings) = 1 THEN strings[1]
    ELSE strings[1] \o sep \o Join(Tail(strings), sep)

Padded(s) == {s, <<" ">> \o s \o <<" ">>}

\* each token as a string of one atom
AsStrings(tokens) == [i \in 1..Len(tokens) |-> <<tokens[i]>>]

TokenLists == SeqsUpTo(ParseTokens, MaxTokens) \ {<<>>}

ParseDesignations ==
    {CardsStr(Join(AsStrings(ts), <<sep>>)) : ts \in TokenLists, sep \in ParseSeps}
    \cup {CardsStr(p) : p \in UNION {Padded(Join(AsStrings(ts), <<" ">>)) : ts \in TokenLists}}
    \cup {CardsList(AsStrings(ts)) : ts \in TokenLists}
    \cup {CardsStr(p) : p \in UNION {Padded(<<w>>) : w \in PassWords}}
    \cup {CardsList(<<<<w>>>>) : w \in PassWords}

ParseReasons == {NoReason, StrReason("r", 120), NumReason}

ParseDecisions ==
    {None, JsonObject(FALSE, NoReason, NoCards),
     JsonObject(TRUE, StrReason("r", 10), NoCards),
     JsonContainer("string", TRUE, FALSE, TRUE),
     JsonContainer("array", TRUE, FALSE, FALSE)}
    \cup {JsonObject(TRUE, r, c) : r \in ParseReasons, c \in ParseDesignations}

ParseLegalLists == SeqsUpTo(ParseMoves, MaxLegal) \ {<<>>}

ParseInit ==
    /\ position = "landlord"
    /\ game = 1
    /\ turns = 0
    /\ action_seq = <<>>
    /\ player_hand_cards = <<>>
    /\ legal_actions \in ParseLegalLists
    /\ pc = "parse"
    /\ decision \in ParseDecisions
    /\ result = <<>>
    /\ oracle_calls = 0
    /\ parse_calls = 0
    /\ game_state = InitGameState(position)
    /\ rec_pre = InitGameState(position)
    /\ action_idx = NotCalled
    /\ unknown_cards = NotCalled
    /\ response = NotCalled
    /\ prompt = NotCalled
    /\ round_count = 0
    /\ log_file_path = "None"
    /\ answers = <<>>
    /\ codec = NotCalled

Parse ==
    /\ pc = "parse"
    /\ action_idx' = ParseCardResponse(decision, legal_actions)
    /\ pc' = "parsed"
    /\ UNCHANGED <<position, game, turns, action_seq, player_hand_cards, legal_actions,
                   decision, result, oracle_calls, parse_calls, game_state, rec_pre,
                   unknown_cards, response,
                   prompt, round_count, log_file_path, answers, codec>>

ParseNext == Parse

SpecParse == ParseInit /\ [][ParseNext]_vars

(***************************************************************************)
(* The Deck Inventory on its own: _calculate_unknown_cards_str is called   *)
(* with a hand of up to MaxHandLen cards and up to MaxPlayed played moves  *)
(* on record.                                                              *)
(***************************************************************************)
DeckSample == {3, 17, 30}

\* hands as the engine keeps them, ascending
DeckHands ==
    {h \in SeqsUpTo(DeckSample, MaxHandLen) : \A i \in 1..(Len(h) - 1) : h[i] <= h[i + 1]}

DeckMoves == {<<3>>, <<3, 3>>, <<3, 3, 3, 3>>, <<17>>, <<30>>}

DeckPlayed == SeqsUpTo(DeckMoves, MaxPlayed)

DeckInit ==
    /\ position = "landlord"
    /\ game = 1
    /\ turns = 0
    /\ action_seq = <<>>
    /\ player_hand_cards = <<>>
    /\ legal_actions = <<>>
    /\ pc = "count"
    /\ decision = None
    /\ result = <<>>
    /\ oracle_calls = 0
    /\ parse_calls = 0
    /\ \E h \in DeckHands, p \in DeckPlayed :
          game_state = [InitGameState(position) EXCEPT !.hand_cards = h, !.played_cards = p]
    /\ rec_pre = InitGameState(position)
    /\ action_idx = NotCalled
    /\ unknown_cards = NotCalled
    /\ response = NotCalled
    /\ prompt = NotCalled
    /\ round_count = 0
    /\ log_file_path = "None"
    /\ answers = <<>>
    /\ codec = NotCalled

CountUnknown ==
    /\ pc = "count"
    /\ unknown_cards' = CalculateUnknownCardsStr(game_state)
    /\ pc' = "counted"
    /\ UNCHANGED <<position, game, turns, action_seq, player_hand_cards, legal_actions,
                   decision, result, oracle_calls, parse_calls, game_state, rec_pre,
                   action_idx, response,
                   prompt, round_count, log_file_path, answers, codec>>

DeckNext == CountUnknown

SpecDeck == DeckInit /\ [][DeckNext]_vars

(***************************************************************************)
(* The Card Codec on its own: a list of up to MaxHandLen cards is shown as *)
(* text by format_cards and the text is read back as parse_card_response   *)
(* reads a designation; or a text of up to MaxHandLen display tokens is    *)
(* read and the cards are shown again.                                     *)
(***************************************************************************)
CodecCards == SeqsUpTo(CardRanks, MaxHandLen) \ {<<>>}

CodecTexts == {JoinSpace(AsStrings(ts)) : ts \in SeqsUpTo(RealCardTokens, MaxHandLen) \ {<<>>}}

CodecInit ==
    /\ position = "landlord"
    /\ game = 1
    /\ turns = 0
    /\ action_seq = <<>>
    /\ player_hand_cards = <<>>
    /\ legal_actions = <<>>
    /\ pc = "convert"
    /\ decision = None
    /\ result = <<>>
    /\ oracle_calls = 0
    /\ parse_calls = 0
    /\ game_state = InitGameState(position)
    /\ rec_pre = InitGameState(position)
    /\ action_idx = NotCalled
    /\ unknown_cards = NotCalled
    /\ response = NotCalled
    /\ prompt = NotCalled
    /\ round_count = 0
    /\ log_file_path = "None"
    /\ answers = <<>>
    /\ \/ \E c \in CodecCards :
             codec = [from |-> "cards", input |-> c, there |-> <<>>, back |-> <<>>]
       \/ \E t \in CodecTexts :
             codec = [from |-> "text", input |-> t, there |-> <<>>, back |-> <<>>]

\* the first conversion
CodecThere ==
    /\ pc = "convert"
    /\ codec' = [codec EXCEPT !.there = IF codec.from = "cards"
                                        THEN FormatCards(codec.input)
                                        ELSE CardsListOf(codec.input)]
    /\ pc' = "half"
    /\ UNCHANGED <<position, game, turns, action_seq, player_hand_cards, legal_actions,
                   decision, result, oracle_calls, parse_calls, game_state, rec_pre,
                   action_idx, unknown_cards, response,
                   prompt, round_count, log_file_path, answers>>

\* the conversion back
CodecBack ==
    /\ pc = "half"
    /\ codec' = [codec EXCEPT !.back = IF codec.from = "cards"
                                       THEN CardsListOf(codec.there)
                                       ELSE FormatCards(codec.there)]
    /\ pc' = "converted"
    /\ UNCHANGED <<position, game, turns, action_seq, player_hand_cards, legal_actions,
                   decision, result, oracle_calls, parse_calls, game_state, rec_pre,
                   action_idx, unknown_cards, response,
                   prompt, round_count, log_file_path, answers>>

CodecNext == CodecThere \/ CodecBack

SpecCodec == CodecInit /\ [][CodecNext]_vars


(***************************************************************************)
(* The Situation Renderer on its own, as test_llm_agent.py calls it:       *)
(* create_comprehensive_prompt on a new agent, with an infoset whose       *)
(* action sequence has up to MaxSeqLen moves and which has or has not the  *)
(* attribute player_card_counts.                                           *)
(***************************************************************************)
\* the moves of the sequences: single cards, every fourth move a pass
NthMove(i) == IF i % 4 = 0 THEN <<>> ELSE <<3 + (i % 12)>>

PromptSeqs == {[i \in 1..n |-> NthMove(i)] : n \in 0..MaxSeqLen}

PromptHands == {<<17>>, <<17, 20>>, <<17, 17, 20, 30>>}

SuppliedCounts == [p \in Positions |-> IF p = "landlord" THEN 20 ELSE 17]

PromptInit ==
    /\ position \in Positions
    /\ game = 1
    /\ turns = 0
    /\ action_seq \in PromptSeqs
    /\ player_hand_cards \in PromptHands
    /\ legal_actions = <<>>
    /\ pc = "build"
    /\ decision = None
    /\ result = <<>>
    /\ oracle_calls = 0
    /\ parse_calls = 0
    /\ game_state = InitGameState(position)
    /\ rec_pre = InitGameState(position)
    /\ action_idx = NotCalled
    /\ unknown_cards = NotCalled
    /\ response = NotCalled
    /\ prompt = NotCalled
    /\ round_count = 0
    /\ log_file_path = "None"
    /\ answers = <<>>
    /\ codec = NotCalled

\* test_llm_agent.py line 71
CreatePrompt ==
    /\ pc = "build"
    /\ \E has_counts \in BOOLEAN :
          game_state' =
              UpdateGameState(game_state,
                              [Infoset EXCEPT !.has_counts = has_counts,
                                              !.player_card_counts =
                                                  IF has_counts THEN SuppliedCounts ELSE <<>>])
    /\ prompt' = CreateComprehensivePrompt(game_state')
    /\ pc' = "built"
    /\ UNCHANGED <<position, game, turns, action_seq, player_hand_cards, legal_actions,
                   decision, result, oracle_calls, parse_calls, rec_pre,
                   action_idx, unknown_cards, response,
                   round_count, log_file_path, answers, codec>>

PromptNext == CreatePrompt

SpecPrompt == PromptInit /\ [][PromptNext]_vars

(***************************************************************************)
(* The degraded path of the state sync on its own: _update_game_state is   *)
(* called again and again with an infoset that has no attribute            *)
(* card_play_action_seq.  action_seq holds the one move the infoset shows, *)
(* its last_move; rec_pre is the Game State before the call.               *)
(***************************************************************************)
DegradedMoves == {<<>>, <<3>>, <<4>>, <<3, 3>>, <<3, 4>>, <<4, 3>>}

DegradedInit ==
    /\ position \in Positions
    /\ game = 1
    /\ turns = 0
    /\ action_seq = <<>>
    /\ player_hand_cards \in DealtHands
    /\ legal_actions = <<>>
    /\ pc = "degraded"
    /\ decision = None
    /\ result = <<>>
    /\ oracle_calls = 0
    /\ parse_calls = 0
    /\ game_state = InitGameState(position)
    /\ rec_pre = InitGameState(position)
    /\ action_idx = NotCalled
    /\ unknown_cards = NotCalled
    /\ response = NotCalled
    /\ prompt = NotCalled
    /\ round_count = 0
    /\ log_file_path = "None"
    /\ answers = <<>>
    /\ codec = NotCalled

DegradedSync ==
    /\ pc \in {"degraded", "degraded synced"}
    /\ \E m \in DegradedMoves :
          /\ action_seq' = <<m>>
          /\ game_state' =
                UpdateGameState(game_state,
                                [Infoset EXCEPT !.last_move = m,
                                                !.last_pid = IF m = <<>> THEN "None"
                                                             ELSE "landlord",
                                                !.has_seq = FALSE,
                                                !.card_play_action_seq = <<>>])
    /\ rec_pre' = game_state
    /\ pc' = "degraded synced"
    /\ UNCHANGED <<position, game, turns, player_hand_cards, legal_actions,
                   decision, result, oracle_calls, parse_calls,
                   action_idx, unknown_cards, response,
                   prompt, round_count, log_file_path, answers, codec>>

DegradedNext == DegradedSync

SpecDegraded == DegradedInit /\ [][DegradedNext]_vars

(***************************************************************************)
(* The driver with start_new_game: play.py never calls it; here the driver *)
(* may call it on the agent whenever a game is about to begin, before the  *)
(* first move.  The game id it sets only names the log file.               *)
(***************************************************************************)
\* mutant: the Game State is kept
StartNewGameKeepsState ==
    /\ pc = "await"
    /\ action_seq = <<>>
    /\ round_count' = 0
    /\ log_file_path' \in {"file", "None"}
    /\ UNCHANGED <<position, game, turns, action_seq, player_hand_cards, legal_actions,
                   pc, decision, result, oracle_calls, parse_calls, game_state, rec_pre,
                   action_idx, unknown_cards, response, prompt, answers, codec>>

\* lines 136-175: the log file is opened (line 162) or, when that fails,
\* log_file_path is None (line 175)
StartNewGame ==
    /\ pc = "await"
    /\ action_seq = <<>>
    /\ round_count' = 0
    /\ game_state' = InitGameState(position)
    /\ log_file_path' \in {"file", "None"}
    /\ UNCHANGED <<position, game, turns, action_seq, player_hand_cards, legal_actions,
                   pc, decision, result, oracle_calls, parse_calls, rec_pre,
                   action_idx, unknown_cards, response, prompt, answers, codec>>

RestartNext == Next \/ StartNewGame

SpecRestart == Init /\ [][RestartNext]_vars

(***************************************************************************)
(* The Decision Oracle Client on its own: call_llm_api_json is called up   *)
(* to MaxCalls times; answers logs what the endpoint answered and what the *)
(* call returned.                                                          *)
(***************************************************************************)
\* a rationale that is a JSON array: len its number of elements, chars the
\* length of its text
ListReason(id, len, chars) ==
    [rt |-> "array", id |-> id, len |-> len, cut |-> FALSE, chars |-> chars]

OracleAnswers ==
    {Response("exception", JsonScalar("null", FALSE)),
     Response("json", JsonObject(TRUE, NoReason, CardsStr(<<"3">>))),
     Response("json", JsonObject(TRUE, NumReason, CardsStr(<<"3">>))),
     Response("json", JsonObject(TRUE, StrReason("a", 10), CardsStr(<<"3">>))),
     Response("json", JsonObject(TRUE, StrReason("b", 60), CardsStr(<<"3">>))),
     Response("json", JsonObject(TRUE, ListReason("l", 1, 80), CardsStr(<<"3">>)))}

OracleInit ==
    /\ position \in Positions
    /\ game = 1
    /\ turns = 0
    /\ action_seq = <<>>
    /\ player_hand_cards = <<>>
    /\ legal_actions = <<>>
    /\ pc = "oracle"
    /\ decision = None
    /\ result = <<>>
    /\ oracle_calls = 0
    /\ parse_calls = 0
    /\ game_state = InitGameState(position)
    /\ rec_pre = InitGameState(position)
    /\ action_idx = NotCalled
    /\ unknown_cards = NotCalled
    /\ response = NotCalled
    /\ prompt = NotCalled
    /\ round_count = 0
    /\ log_file_path = "None"
    /\ answers = <<>>
    /\ codec = NotCalled

OracleCall ==
    /\ pc = "oracle"
    /\ Len(answers) < MaxCalls
    /\ \E answer \in OracleAnswers :
          LET got == CallLlmApiJson(game_state, answer)
          IN /\ response' = answer
             /\ decision' = got.decision
             /\ game_state' = got.gs
             /\ answers' = Append(answers, [answer |-> answer, returned |-> got.decision])
    /\ oracle_calls' = oracle_calls + 1
    /\ round_count' = Logged(log_file_path, round_count)
    /\ UNCHANGED <<position, game, turns, action_seq, player_hand_cards, legal_actions,
                   pc, result, parse_calls, rec_pre,
                   action_idx, unknown_cards, prompt, log_file_path, codec>>

OracleNext == OracleCall

SpecOracle == OracleInit /\ [][OracleNext]_vars

(***************************************************************************)
(* Properties.                                                             *)
(***************************************************************************)
Synced == pc \in {"synced", "prompted", "decided", "returned"}

\* C1: whatever the oracle answered, the move act returns is an entry of the
\* legal-move list of the turn.
C1_ReturnedMoveIsLegal == pc = "returned" => Contains(legal_actions, result)

\* C1 witness: act has returned after the oracle named cards that match no
\* legal move.
C1_Witness ==
    /\ pc = "returned"
    /\ oracle_calls = 1
    /\ decision # None
    /\ ParseCardResponse(decision, legal_actions).kind = "RuntimeError"

\* C2: act never raises, and once it has synced it goes on to return a move,
\* whatever the oracle does.
C2_TurnTerminates == [](pc # "raised") /\ (pc = "synced" ~> pc = "returned")

\* C2 witness: act has returned a move after the oracle answered with a JSON
\* value that is no object.
C2_Witness ==
    /\ pc = "returned"
    /\ decision # None
    /\ decision.t # "object"
    /\ decision.has_cards

\* C3 as claimed: within one game, after each sync the plain played-move
\* list is the non-empty entries of the action sequence, in order.
C3_PlayedMovesAreTheSequence ==
    (game = 1 /\ pc = "synced") =>
        game_state.played_cards = NonEmptyMoves(action_seq)

\* C4: a second sync with the same infoset changes nothing of the Game State.
C4_SyncIdempotent ==
    pc \in {"synced", "prompted"} => UpdateGameState(game_state, Infoset) = game_state

\* C4 witness: create_comprehensive_prompt has synced a second time in a
\* turn with moves on record.
C4_Witness ==
    /\ pc = "prompted"
    /\ game_state.played_cards_with_player # <<>>
    /\ game_state.played_cards # <<>>

\* the state has processed the first Len(played_cards_with_player) <= k
\* entries of seq
ProcessedPrefix(gs, seq, k) ==
    /\ Len(gs.played_cards_with_player) <= k
    /\ \A i \in 1..Len(gs.played_cards_with_player) :
          gs.played_cards_with_player[i] = <<At(players, (i - 1) % 3), seq[i]>>

\* C5: from a state that has processed a prefix of seq no longer than k,
\* reconstructing with seq[:k] and then with seq gives the state that
\* reconstructing with seq gives.
C5_Incremental ==
    \A seq \in RecSeqs : \A k \in 0..Len(seq) :
        ProcessedPrefix(game_state, seq, k) =>
            ReconstructHistory(ReconstructHistory(game_state, SubSeq(seq, 1, k)), seq)
                = ReconstructHistory(game_state, seq)

\* C5 witness: the state has processed a non-empty prefix of a longer
\* sequence, and both the step to seq[:k] and the step to seq add moves.
C5_Witness ==
    /\ pc = "reconstruct"
    /\ game_state.played_cards_with_player # <<>>
    /\ \E seq \in RecSeqs : \E k \in 1..(Len(seq) - 1) :
          /\ ProcessedPrefix(game_state, seq, k)
          /\ Len(game_state.played_cards_with_player) < k
          /\ ReconstructHistory(game_state, SubSeq(seq, 1, k)) # game_state
          /\ ReconstructHistory(game_state, seq)
                # ReconstructHistory(game_state, SubSeq(seq, 1, k))

\* the sequence of the last reconstruction is not empty and shorter than
\* what had been processed
Shrunk ==
    /\ pc = "reconstruct"
    /\ action_seq # <<>>
    /\ Len(action_seq) < Len(rec_pre.played_cards_with_player)

\* C6: a non-empty sequence shorter than what was processed leaves the
\* history a fresh state gets from that sequence, all of it processed.
C6_ShrinkRebuilds ==
    Shrunk =>
        LET fresh == ReconstructHistory(InitGameState(position), action_seq)
        IN /\ game_state.played_cards_with_player = fresh.played_cards_with_player
           /\ game_state.played_cards = fresh.played_cards
           /\ Len(game_state.played_cards_with_player) = Len(action_seq)

\* C6 witness: the sequence shrank under a state that held played moves.
C6_Witness == Shrunk /\ rec_pre.played_cards # <<>>

\* C7 as claimed: a sync with an empty action sequence under an agent that
\* holds history clears both played-move lists.
C7_EmptySequenceResets ==
    [][(/\ pc = "await"
        /\ pc' = "synced"
        /\ action_seq = <<>>
        /\ Len(game_state.played_cards_with_player) > 0)
       => (/\ game_state'.played_cards = <<>>
           /\ game_state'.played_cards_with_player = <<>>)]_vars

\* C8 as claimed: after the sync of the agent's first turn of a game, the
\* played moves, the attributed played moves and the last-seen move are
\* those of an agent that starts the game fresh.
C8_NoHistoryAcrossGames ==
    (pc = "synced" /\ Len(action_seq) < Len(players)) =>
        LET fresh == UpdateGameState(InitGameState(position), Infoset)
        IN /\ game_state.played_cards = fresh.played_cards
           /\ game_state.played_cards_with_player = fresh.played_cards_with_player
           /\ game_state.last_move = fresh.last_move

\* C9: with one legal move, act returns it straight after the sync: no
\* request to the oracle, no parse_card_response, no change of the Game
\* State.
C9_ForcedShortCircuit ==
    /\ []((pc = "returned" /\ Len(legal_actions) = 1) =>
            (result = At(legal_actions, 0) /\ oracle_calls = 0 /\ parse_calls = 0))
    /\ [][(pc = "synced" /\ Len(legal_actions) = 1) =>
            (/\ pc' = "returned"
             /\ result' = At(legal_actions, 0)
             /\ oracle_calls' = 0
             /\ parse_calls' = 0
             /\ game_state' = game_state)]_vars

\* C9 witness: act has returned the one legal move of a turn that had moves
\* on record.
C9_Witness ==
    /\ pc = "returned"
    /\ Len(legal_actions) = 1
    /\ game_state.played_cards # <<>>

\* C10: from the sync on, before the oracle is called and until act returns,
\* the state's hand is the engine's hand of the turn and, for a non-empty
\* action sequence, there is one attributed move per entry.
C10_SyncedBeforeChoice ==
    Synced =>
        /\ game_state.hand_cards = player_hand_cards
        /\ action_seq # <<>> =>
              Len(game_state.played_cards_with_player) = Len(action_seq)

\* C10 witness: act has returned on the oracle branch with no decision, in a
\* turn whose hand is no longer the dealt one.
C10_Witness ==
    /\ pc = "returned"
    /\ oracle_calls = 1
    /\ decision = None
    /\ action_seq # <<>>
    /\ player_hand_cards \notin DealtHands

\* C11: in a game the agent entered fresh, after each sync entry i of the
\* attributed list is the seat of slot i mod 3 with entry i of the action
\* sequence, passes included.
C11_SeatAttribution ==
    (game = 1 /\ Synced) =>
        /\ Len(game_state.played_cards_with_player) = Len(action_seq)
        /\ \A i \in 0..(Len(action_seq) - 1) :
              At(game_state.played_cards_with_player, i)
                  = <<At(players, i % 3), At(action_seq, i)>>

\* C11 witness: a sync has attributed more than one round of moves, a pass
\* among them, in two steps.
C11_Witness ==
    /\ game = 1
    /\ pc = "synced"
    /\ turns > 1
    /\ Len(action_seq) > Len(players)
    /\ \E i \in 1..Len(action_seq) : action_seq[i] = <<>>

\* the lowest index, from 0, of an entry of list that satisfies Test
LowestIndex(list, Test(_)) ==
    CHOOSE i \in 0..(Len(list) - 1) :
        /\ Test(At(list, i))
        /\ \A j \in 0..(i - 1) : ~Test(At(list, j))

\* "3 3 3", "3,3,3" and ["3","3","3"]
ThreeThrees ==
    {CardsStr(<<"3", " ", "3", " ", "3">>), CardsStr(<<"3", ",", "3", ",", "3">>),
     CardsList(<<<<"3">>, <<"3">>, <<"3">>>>)}

\* C12 as claimed: with the move {3,3,3} in the legal-move list, the
\* designations "3 3 3", "3,3,3" and ["3","3","3"] all resolve to the index
\* of that move.
C12_AllFormsResolve ==
    (/\ pc = "parsed"
     /\ decision \in {JsonObject(TRUE, NoReason, c) : c \in ThreeThrees}
     /\ Contains(legal_actions, <<3, 3, 3>>))
    => action_idx = Return(LowestIndex(legal_actions, LAMBDA m : m = <<3, 3, 3>>))

\* a and b hold the same cards: b is a rearrangement of a
SameCards(a, b) ==
    /\ Len(a) = Len(b)
    /\ \E f \in [1..Len(a) -> 1..Len(a)] :
          /\ \A i, j \in 1..Len(a) : f[i] = f[j] => i = j
          /\ \A i \in 1..Len(a) : a[i] = b[f[i]]

\* the tokens of the designation of decision d: the runs between blanks and
\* full-width commas
Tokens(d) == Split(Strip(ReplaceBySpace(CardsStrOf(d), "FullComma")))

HasDesignation(d) == d.t = "object" /\ d.truthy /\ d.has_cards

\* d designates cards and nothing else
AllMap(d) ==
    /\ HasDesignation(d)
    /\ Tokens(d) # <<>>
    /\ \A i \in 1..Len(Tokens(d)) : IsCardToken(Tokens(d)[i])

\* the cards of the mappable tokens of d, in the order of the tokens
Designated(d) ==
    LET mappable == SelectSeq(Tokens(d), IsCardToken)
    IN [i \in 1..Len(mappable) |-> RealCard2EnvCard[mappable[i][1]]]

\* C13: for an answer with no rationale or a text as rationale, whose tokens
\* all map to cards some legal move holds, the index is the lowest one of a
\* legal move holding exactly those cards, in whatever order either lists
\* them.
C13_MultisetMatch ==
    (/\ pc = "parsed"
     /\ AllMap(decision)
     /\ decision.reason.rt \in {"absent", "string"}
     /\ \E i \in 1..Len(legal_actions) : SameCards(legal_actions[i], Designated(decision)))
    => action_idx = Return(LowestIndex(legal_actions,
                                       LAMBDA m : SameCards(m, Designated(decision))))

\* C13 witness: the answer resolved to index 1, a move that lists the
\* designated cards in another order.
C13_Witness ==
    /\ pc = "parsed"
    /\ AllMap(decision)
    /\ Len(legal_actions) = 2
    /\ action_idx = Return(1)
    /\ At(legal_actions, 1) # Designated(decision)
    /\ SameCards(At(legal_actions, 1), Designated(decision))

\* the pass designations: the pass word as a string, blanks around it or
\* not, or as a list of one element
PassDesignations ==
    {CardsStr(p) : p \in UNION {Padded(<<w>>) : w \in PassWords}}
    \cup {CardsList(<<<<w>>>>) : w \in PassWords}

\* C14: a pass designation resolves to the index of the first empty legal
\* move, and to 0 when there is none.
C14_PassResolution ==
    (pc = "parsed" /\ HasDesignation(decision) /\ decision.cards \in PassDesignations)
    => action_idx =
          Return(IF Contains(legal_actions, <<>>)
                 THEN LowestIndex(legal_actions, LAMBDA m : m = <<>>)
                 ELSE 0)

\* C14 witness: "PASS" resolved to index 1, the one empty move.
C14_Witness ==
    /\ pc = "parsed"
    /\ HasDesignation(decision)
    /\ decision.cards = CardsStr(<<"PASS">>)
    /\ action_idx = Return(1)
    /\ At(legal_actions, 1) = <<>>

\* the oracle gave no answer, an answer without a designation, a designation
\* with no token that maps to a card, or one that no legal move equals
FallsBack(d, legal) ==
    \/ d = None
    \/ ~d.has_cards
    \/ /\ HasDesignation(d)
       /\ d.cards \notin PassDesignations
       /\ \/ Designated(d) = <<>>
          \/ \A i \in 1..Len(legal) : ~SameCards(legal[i], Designated(d))

\* C15: in each of these cases the turn ends with the first legal move.
C15_FallbackChain ==
    (pc = "returned" /\ oracle_calls = 1 /\ FallsBack(decision, legal_actions))
    => result = At(legal_actions, 0)

\* C15 witness: the turn ended with the first of two legal moves after the
\* oracle designated a pair of cards that no legal move holds.
C15_Witness ==
    /\ pc = "returned"
    /\ oracle_calls = 1
    /\ decision # None
    /\ HasDesignation(decision)
    /\ Len(Designated(decision)) = 2
    /\ Len(legal_actions) = 2
    /\ \A i \in 1..Len(legal_actions) : ~SameCards(legal_actions[i], Designated(decision))
    /\ result = At(legal_actions, 0)

\* the illegal-move condition: a designation that is no pass, at least one
\* token of which maps to a card, and no legal move holds the mapped cards
IllegalMove(d, legal) ==
    /\ d # None
    /\ HasDesignation(d)
    /\ d.cards \notin PassDesignations
    /\ Designated(d) # <<>>
    /\ \A i \in 1..Len(legal) : ~SameCards(legal[i], Designated(d))

\* no answer, no designation field, or no token that maps
NothingDesignated(d) ==
    \/ d = None
    \/ ~d.has_cards
    \/ HasDesignation(d) /\ d.cards \notin PassDesignations /\ Designated(d) = <<>>

\* C16: parse_card_response raises RuntimeError exactly on the illegal-move
\* condition, and returns 0 when nothing is designated.
C16_IllegalMoveDistinct ==
    pc = "parsed" =>
        /\ action_idx.kind = "RuntimeError" <=> IllegalMove(decision, legal_actions)
        /\ NothingDesignated(decision) => action_idx = Return(0)

\* C16 witness: RuntimeError for a designation of which one token mapped and
\* another did not.
C16_Witness ==
    /\ pc = "parsed"
    /\ action_idx.kind = "RuntimeError"
    /\ Len(Designated(decision)) < Len(Tokens(decision))

\* decision d with the designation made of its mappable tokens alone
MappableOnly(d) ==
    [d EXCEPT !.cards = CardsStr(Join(SelectSeq(Tokens(d), IsCardToken), <<" ">>))]

\* C17: a designation that is no pass resolves as the designation made of
\* its mappable tokens alone does, and to 0 when no token maps.
C17_UnmappableDropped ==
    (pc = "parsed" /\ HasDesignation(decision) /\ decision.cards \notin PassDesignations)
    => /\ action_idx = ParseCardResponse(MappableOnly(decision), legal_actions)
       /\ Designated(decision) = <<>> => action_idx = Return(0)

\* C17 witness: a designation with a token that maps and one that does not
\* resolved to index 1.
C17_Witness ==
    /\ pc = "parsed"
    /\ HasDesignation(decision)
    /\ Designated(decision) # <<>>
    /\ Len(Designated(decision)) < Len(Tokens(decision))
    /\ action_idx = Return(1)

\* decision d without its rationale
WithoutReason(d) == [d EXCEPT !.reason = NoReason, !.has_reason = FALSE]

\* C18 as claimed: an answer resolves as the same answer without rationale
\* does.
C18_RationaleHasNoInfluence ==
    (pc = "parsed" /\ decision # None /\ HasDesignation(decision))
    => action_idx = ParseCardResponse(WithoutReason(decision), legal_actions)

\* copies of rank r in the full deck
InDeck(r) == IF r \in {20, 30} THEN 1 ELSE DeckCopies

\* copies of rank r in the hand and in the played moves of gs
Held(gs, r) ==
    Count(gs.hand_cards, r)
        + Cardinality({<<i, j>> \in (1..Len(gs.played_cards)) \X (1..DeckCopies) :
                          j <= Len(gs.played_cards[i]) /\ gs.played_cards[i][j] = r})

\* hand and played moves stay within the deck
WithinDeck(gs) == \A r \in CardRanks : Held(gs, r) <= InDeck(r)

\* C19: for a hand and played moves within the deck, the string returned
\* names, rank by rank, the copies of the deck that are neither in the hand
\* nor played, in ascending rank order.
C19_ExactSubtraction ==
    (pc = "counted" /\ WithinDeck(game_state)) =>
        /\ unknown_cards.kind = "return"
        /\ \A i \in 1..Len(unknown_cards.str) : unknown_cards.str[i] \in RealCardTokens
        /\ \A r \in CardRanks :
              Count(unknown_cards.str, EnvCard2RealCard[r]) = InDeck(r) - Held(game_state, r)
        /\ \A i \in 1..(Len(unknown_cards.str) - 1) :
              RealCard2EnvCard[unknown_cards.str[i]] <= RealCard2EnvCard[unknown_cards.str[i + 1]]

\* C19 witness: a count with cards of one rank both in the hand and in two
\* played moves.
C19_Witness ==
    /\ pc = "counted"
    /\ WithinDeck(game_state)
    /\ Len(game_state.played_cards) = 2
    /\ \E r \in CardRanks :
          /\ Count(game_state.hand_cards, r) > 0
          /\ Held(game_state, r) > Count(game_state.hand_cards, r) + 1

\* C20 as claimed: with more copies of a rank in hand and played moves than
\* the deck holds, the computation fails instead of returning a string.
C20_FailsLoudly ==
    (pc = "counted" /\ ~WithinDeck(game_state)) => unknown_cards.kind = "raise"

\* the failure classes of the request: requests.post raised (a transport
\* error or the timeout), a status other than 200, a body that is no JSON
FailureKinds == {"exception", "status", "notjson"}

\* C21: after a request that failed in any of the three classes,
\* call_llm_api_json has returned None (act goes on, nothing is raised),
\* and the move act returns is legal_actions[0].
C21_FailureFallsBack ==
    (response # NotCalled /\ response.kind \in FailureKinds) =>
        /\ pc \in {"decided", "returned", "await"}
        /\ decision = None
        /\ parse_calls = 0
        /\ pc \in {"returned", "await"} => result = At(legal_actions, 0)

\* C21 witness: a turn with two legal moves whose request got a status
\* other than 200 has returned the first of them.
C21_Witness ==
    /\ pc = "returned"
    /\ response # NotCalled
    /\ response.kind = "status"
    /\ Len(legal_actions) = 2
    /\ result = At(legal_actions, 0)
    /\ result # At(legal_actions, 1)

\* C22: no request is sent before the prompt is built; once the oracle has
\* been asked, and when the turn ends, the number of requests of the turn
\* is 1 on a turn with two or more legal moves and 0 on a forced turn,
\* whether the request failed or not.
C22_OneCallPerTurn ==
    /\ pc \in {"synced", "prompted"} => oracle_calls = 0
    /\ pc \in {"decided", "returned", "raised"} =>
          oracle_calls = IF IsForced(legal_actions) THEN 0 ELSE 1
    /\ (pc = "returned" /\ Len(legal_actions) >= 2) =>
          (response # NotCalled /\ oracle_calls = 1)
    /\ (pc = "returned" /\ Len(legal_actions) = 1) =>
          (response = NotCalled /\ oracle_calls = 0)

\* C22 witness: a turn with two legal moves has ended after one request,
\* which timed out or failed in transport.
C22_Witness ==
    /\ pc = "returned"
    /\ Len(legal_actions) = 2
    /\ response # NotCalled
    /\ response.kind = "exception"
    /\ oracle_calls = 1

\* C23: distinct ranks have distinct display tokens; a rank shown as its
\* token and read back is the same rank, and a token read as a rank and
\* shown again is the same token; so cards shown as text and read back are
\* the same cards, and a text of display tokens read and shown again is
\* the same text.
C23_CodecRoundTrip ==
    /\ \A r, q \in CardRanks : r # q => EnvCard2RealCard[r] # EnvCard2RealCard[q]
    /\ \A r \in CardRanks : RealCard2EnvCard[EnvCard2RealCard[r]] = r
    /\ \A t \in RealCardTokens : EnvCard2RealCard[RealCard2EnvCard[t]] = t
    /\ pc = "converted" => codec.back = codec.input

\* C23 witness: a list with both jokers and a 10 has made the round trip.
C23_Witness ==
    /\ pc = "converted"
    /\ codec.from = "cards"
    /\ \A r \in {10, 20, 30} : Contains(codec.input, r)
    /\ Len(codec.there) = 5
    /\ codec.back = codec.input

\* the cards neither in the plain played-move list nor in the acting
\* seat's hand
Unaccounted(gs) == TotalCards - Len(FlatPlayed(gs.played_cards)) - Len(gs.hand_cards)

\* C24: in a prompt built while the Game State holds no per-seat counts,
\* the acting seat is shown with the size of its hand, and the two other
\* seats with the half of the unaccounted cards rounded down and rounded
\* up: the two counts sum to the unaccounted total and differ by at most
\* one.
C24_EvenDivision ==
    (pc = "built" /\ game_state.player_card_counts = <<>>) =>
        LET shown == prompt.card_counts_info
            total == Unaccounted(game_state)
        IN /\ shown[position] = Len(game_state.hand_cards)
           /\ \E a, b \in Positions \ {position} :
                 /\ a # b
                 /\ shown[a] = total \div 2
                 /\ shown[b] = total - (total \div 2)
                 /\ shown[a] + shown[b] = total
                 /\ shown[b] - shown[a] \in {0, 1}

\* C24 witness: a prompt built for the seat before the landlord with an
\* odd number of unaccounted cards, so that the two estimates differ.
C24_Witness ==
    /\ pc = "built"
    /\ position = "landlord_up"
    /\ game_state.player_card_counts = <<>>
    /\ game_state.played_cards # <<>>
    /\ Unaccounted(game_state) % 2 = 1
    /\ prompt.card_counts_info["landlord_down"] = prompt.card_counts_info["landlord"] + 1

\* rounds of a history of n attributed moves: three to a round, a last
\* one for what is left over
RoundsOf(n) == (n + RoundSize - 1) \div RoundSize

\* C29: the prompt shows all rounds of the attributed history when they
\* are at most 10 and the 10 last ones otherwise; the shown rounds are
\* consecutive and end with the last round; a round holds, in sequence
\* order, the three attributed moves of its number (the last round those
\* left over), each with its seat and its cards.
C29_HistoryBounded ==
    pc = "built" =>
        LET all_plays == game_state.played_cards_with_player
            n == Len(all_plays)
            shown == prompt.history.rounds
            first == RoundsOf(n) - Len(shown)
        IN /\ n = Len(action_seq)
           /\ Len(shown) = IF RoundsOf(n) <= RoundsShown THEN RoundsOf(n) ELSE RoundsShown
           /\ Len(shown) <= RoundsShown
           /\ \A k \in 1..Len(shown) :
                 LET num == first + k
                     size == IF num * RoundSize <= n THEN RoundSize ELSE n - (num - 1) * RoundSize
                 IN /\ shown[k].round_num = num
                    /\ Len(shown[k].plays) = size
                    /\ \A j \in 1..size :
                          LET entry == all_plays[(num - 1) * RoundSize + j]
                              play == shown[k].plays[j]
                          IN /\ play.player = entry[1]
                             /\ entry[2] = <<>> => play.play_str = <<"Guo">>
                             /\ entry[2] # <<>> => CardsListOf(play.play_str) = entry[2]

\* C29 witness: a prompt built from a sequence of more than 11 rounds, the
\* last one incomplete, shows 10 rounds, the first of them not round 1.
C29_Witness ==
    /\ pc = "built"
    /\ Len(action_seq) > 11 * RoundSize
    /\ Len(action_seq) % RoundSize # 0
    /\ Len(prompt.history.rounds) = RoundsShown
    /\ prompt.history.rounds[1].round_num > 1
    /\ Len(prompt.history.rounds[RoundsShown].plays) < RoundSize

\* C25 as claimed: in the prompt built in a turn of a game, the unknown
\* cards are, rank by rank, the copies of the deck that are neither in the
\* hand of the acting seat nor played in the action sequence, so that
\* hand, played and unknown cards together are the 54 cards of the deck.
C25_CardsConserved ==
    pc = "prompted" =>
        LET unknown_cards_str == CreateComprehensivePrompt(game_state).unknown_cards_str
        IN /\ \A r \in CardRanks :
                 Count(unknown_cards_str, EnvCard2RealCard[r]) =
                     InDeck(r) - Count(player_hand_cards, r) - PlayedCount(action_seq, r)
           /\ Len(player_hand_cards) + Len(FlatPlayed(action_seq))
                 + Len(unknown_cards_str) = TotalCards

\* C26 as claimed: once act has synced, the last-seen move of the Game
\* State is the last opposing move of the infoset of the turn, and is
\* empty when the infoset has none.
C26_LastMoveFollowsEngine ==
    pc \in {"synced", "prompted"} => game_state.last_move = Infoset.last_move

\* C27: a sync without an action sequence appends the last move it is
\* shown to the plain played-move list when the move is not empty and no
\* equal move is in the list, and leaves the list alone otherwise; the
\* list never holds a move twice, and the attributed list stays empty.
C27_DegradedDedup ==
    pc = "degraded synced" =>
        LET last_move == action_seq[1]
            before == rec_pre.played_cards
            after == game_state.played_cards
        IN /\ after = IF last_move # <<>> /\ ~Contains(before, last_move)
                      THEN Append(before, last_move)
                      ELSE before
           /\ \A i, j \in 1..Len(after) : i # j => after[i] # after[j]
           /\ game_state.played_cards_with_player = <<>>

\* C27 witness: a sync was shown a last move that an earlier sync had
\* appended, with another move appended since, and added nothing.
C27_Witness ==
    /\ pc = "degraded synced"
    /\ Len(rec_pre.played_cards) >= 2
    /\ action_seq[1] = rec_pre.played_cards[1]
    /\ game_state.played_cards = rec_pre.played_cards

\* C28: a call of start_new_game leaves the hand, the last-seen move, the
\* last-seen seat, the two played-move lists, the per-seat counts and the
\* recent decisions empty or absent and the round counter 0, and does not
\* change the seat.
C28_StartNewGameReinitializes ==
    [][StartNewGame =>
          /\ game_state'.hand_cards = <<>>
          /\ game_state'.last_move = <<>>
          /\ game_state'.last_player = "None"
          /\ game_state'.played_cards = <<>>
          /\ game_state'.played_cards_with_player = <<>>
          /\ game_state'.player_card_counts = <<>>
          /\ game_state'.recent_decisions = <<>>
          /\ round_count' = 0
          /\ position' = position
          /\ game_state'.position = position]_vars

\* C28 witness: the second game is about to begin after a first one in
\* which the agent acted, and the agent holds no hand, no history and no
\* counted round, with a log file open.
C28_Witness ==
    /\ game = 2
    /\ turns > 0
    /\ action_seq = <<>>
    /\ pc = "await"
    /\ game_state = InitGameState(position)
    /\ round_count = 0
    /\ log_file_path = "file"

\* the answers, oldest first, whose call returned a decision and which
\* carried a rationale
Carried == SelectSeq(answers, LAMBDA a : a.returned # None /\ a.answer.value.has_reason)

\* the length of the text of a stored rationale
Chars(reason) == IF reason.rt = "string" THEN reason.len ELSE reason.chars

\* the recent-decisions list holds the rationales of the last answers of
\* Carried, at most RecentKept of them, in arrival order, a string of more
\* than 50 characters cut to 50 and marked
RecentAreLastCarried ==
    LET recent == game_state.recent_decisions
        skipped == Len(Carried) - Len(recent)
    IN /\ Len(recent) <= RecentKept
       /\ Len(recent) = IF Len(Carried) <= RecentKept THEN Len(Carried) ELSE RecentKept
       /\ \A k \in 1..Len(recent) :
             LET reason == Carried[skipped + k].answer.value.reason
             IN /\ recent[k].id = reason.id
                /\ recent[k].rt = reason.rt
                /\ recent[k].cut = (reason.rt = "string" /\ reason.len > ReasonLimit)

\* C30 as claimed: after any series of calls the recent-decisions list
\* holds at most 5 entries, the rationales of the last answers that gave a
\* decision and carried one, in arrival order, and the text of each entry
\* has at most 53 characters.
C30_RecentDecisionsBounded ==
    /\ RecentAreLastCarried
    /\ \A k \in 1..Len(game_state.recent_decisions) :
          Chars(game_state.recent_decisions[k]) <= ReasonLimit + EllipsisLen

=============================================================================
